---- MODULE Spec2Model ----
(***************************************************************************)
(* Model of the transcript pipeline scripts:                               *)
(*   fetch_transcripts_ytdlp.py  (extract_video_id, fetch_transcript_ytdlp,*)
(*                                process_videos)                          *)
(*   extract_youtube_urls.py     (extract_youtube_videos)                  *)
(*   extract_channel_videos.py   (extract_channel_urls, get_channel_name,  *)
(*                                fetch_channel_videos, process_channels)  *)
(*   filter_fitness_videos.py    (load_transcript, calculate_fitness_score,*)
(*                                find_fitness_videos)                     *)
(* Text is modelled as a sequence of tokens; a token is one regex atom of  *)
(* the patterns the scripts use (a URL prefix literal, a word character,   *)
(* a separator, a word).                                                   *)
(***************************************************************************)
EXTENDS Integers, Sequences, FiniteSets, TLC

VARIABLES
    \* ---- process_videos (fetch_transcripts_ytdlp.py)
    urls,           \* the stripped non-empty lines of the input file
    i,              \* 1-based index of the next item of the for loop
    pc,             \* position in process_videos: "loop", "done", "crashed"
                    \* (ended by an unhandled exception), "idle" (not run)
    success_count,
    failed,         \* the list of FailureRecords
    sleeps,         \* item indices after which time.sleep(delay) was called
    toolCalls,      \* item indices for which the subtitle tool was invoked
    artifacts,      \* transcript files written to output_dir
    failedFile,     \* output_dir/failed.json: absent, or the list written
    summary,        \* the summary lines printed so far
    progress,       \* the per-item console lines "[i/total] ..." printed so far
    runs,           \* invocations of process_videos on output_dir so far
    \* ---- one call of fetch_transcript_ytdlp
    fetchEnv,       \* what the call meets: how the tool ended and the /tmp files
    lastRead,       \* candidate files the call opened, in order
    lastResult,     \* what the call returned or raised (None before the call)
    \* ---- URL extractors
    content,        \* the text of the input file
    video_out,      \* result of extract_youtube_videos (None before the call)
    channel_out,    \* result of extract_channel_urls (None before the call)
    \* ---- process_channels (extract_channel_videos.py)
    channels,       \* the unique channel URLs process_channels iterates
    ci,             \* 1-based index of the next channel
    cpc,            \* position in process_channels: "loop", "done", "crashed", "idle"
    all_videos,
    channel_stats,  \* the dict channel_name -> stats entry, in insertion order
    channel_files,  \* per-channel files written
    aggregate,      \* the files written after the loop
    lastListing,    \* what the last listing invocation did
    lastEnumResult, \* what the last fetch_channel_videos returned
    \* ---- find_fitness_videos (filter_fitness_videos.py)
    directory,      \* the *.txt files of the transcripts directory
    min_score,
    prev,           \* the output of the invocation before the latest (None if none)
    last            \* the output of the latest invocation (None if none)

batchVars   == <<urls, i, pc, success_count, failed, sleeps, toolCalls, artifacts,
                 failedFile, summary, progress, runs>>
fetchVars   == <<fetchEnv, lastRead, lastResult>>
extractVars == <<content, video_out, channel_out>>
channelVars == <<channels, ci, cpc, all_videos, channel_stats, channel_files,
                 aggregate, lastListing, lastEnumResult>>
scorerVars  == <<directory, min_score, prev, last>>
vars        == <<batchVars, fetchVars, extractVars, channelVars, scorerVars>>

(***************************************************************************)
(* Bounds of the model.                                                    *)
(***************************************************************************)
MaxItems == 3       \* longest input list of process_videos
MaxTextLen == 5     \* longest input text of the URL extractors, in tokens
MaxChannelText == 6 \* longest channels file of process_channels, in tokens
MaxFiles == 2       \* most *.txt files in the transcripts directory
MaxRuns == 2        \* most invocations of process_videos on one output directory
MaxRunItems == 2    \* longest input list of a run when runs follow one another

None == [kind |-> "None"]

Min(a, b) == IF a < b THEN a ELSE b

\* The concatenation of a sequence of sequences.
RECURSIVE Flatten(_)
Flatten(ss) == IF ss = <<>> THEN <<>> ELSE Head(ss) \o Flatten(Tail(ss))

(***************************************************************************)
(* extract_video_id.  A URL is a sequence of tokens:                       *)
(*   "W"  the literal  youtube.com/watch?v=                                *)
(*   "S"  the literal  youtube.com/shorts/                                 *)
(*   "&", "?"  themselves;  any other token is one ordinary character.     *)
(***************************************************************************)
\* The longest run of tokens outside `stop` starting at position p.
RECURSIVE RunFrom(_, _, _)
RunFrom(url, p, stop) ==
    IF p > Len(url) \/ url[p] \in stop THEN <<>>
    ELSE <<url[p]>> \o RunFrom(url, p + 1, stop)

\* re.search(prefix + '([^stop]+)', url): group 1 of the leftmost match, or None.
SearchGroup(url, prefix, stop) ==
    LET hits == {p \in 1..Len(url) : url[p] = prefix /\ RunFrom(url, p + 1, stop) # <<>>}
    IN  IF hits = {} THEN None
        ELSE LET p == CHOOSE q \in hits : \A r \in hits : q <= r
             IN  [kind |-> "id", id |-> RunFrom(url, p + 1, stop)]

extract_video_id(url) ==
    LET watch  == SearchGroup(url, "W", {"&"})
        shorts == SearchGroup(url, "S", {"&", "?"})
    IN  IF watch # None THEN watch
        ELSE IF shorts # None THEN shorts
        ELSE None

(***************************************************************************)
(* fetch_transcript_ytdlp.                                                 *)
(***************************************************************************)
\* Mutant of subtitle_files: the regional variants before plain English.
subtitle_files_regional_first == <<"en-US", "en-GB", "en">>

\* subtitle_files, in the order the code probes them.
subtitle_files == <<"en", "en-US", "en-GB">>

Absent    == [kind |-> "absent"]
Malformed == [kind |-> "malformed"]      \* json.load, or reading the body, raises
NoEvents  == [kind |-> "object"]         \* a JSON object with no 'events' key
Events(ev) == [kind |-> "events", events |-> ev]

\* A JSON subtitle body per candidate; the fragments tell the candidates apart.
SubtitleBody(c) ==
    Events(<< [kind |-> "segs", segs |-> << [kind |-> "utf8", utf8 |-> c],
                                           [kind |-> "other"] >>],
              [kind |-> "nosegs"],
              [kind |-> "segs", segs |-> << [kind |-> "utf8", utf8 |-> "world"] >>] >>)

FileContents(c) == {Absent, Malformed, NoEvents, SubtitleBody(c)}

\* What one invocation can meet: how subprocess.run ended and, when it returned,
\* which candidate files /tmp then holds.
Environments ==
    [invocation : {"timeout", "oserror"}, returncode : {0},
     files : {[c \in {"en", "en-US", "en-GB"} |-> Absent]}]
    \cup
    {[invocation |-> "returned", returncode |-> rc, files |-> f] :
        rc \in {0, 1},
        f \in {g \in [{"en", "en-US", "en-GB"} -> UNION {FileContents(c) : c \in {"en", "en-US", "en-GB"}}] :
                  \A c \in {"en", "en-US", "en-GB"} : g[c] \in FileContents(c)}}

\* texts.append(seg['utf8']) for every seg of every event that has them.
SegTexts(segs) ==
    Flatten([k \in 1..Len(segs) |->
                IF segs[k].kind = "utf8" THEN <<segs[k].utf8>> ELSE <<>>])

EventTexts(events) ==
    Flatten([k \in 1..Len(events) |->
                IF events[k].kind = "segs" THEN SegTexts(events[k].segs) ELSE <<>>])

Failure(err) == [success |-> FALSE, error |-> err]

Return(v) == [kind |-> "return", value |-> v]
Raise(exc) == [kind |-> "raise", exc |-> exc]

\* The for loop over subtitle_files from candidate k on; `read` lists the files
\* opened so far.  A file without 'events' is left in place and the loop goes on.
RECURSIVE Probe(_, _, _)
Probe(k, files, read) ==
    IF k > Len(subtitle_files)
    THEN [outcome |-> Return(Failure("No subtitles found")), read |-> read, removed |-> {}]
    ELSE LET c == subtitle_files[k]
             body == files[c]
         IN  IF body = Absent THEN Probe(k + 1, files, read)
             ELSE IF body = Malformed
             THEN [outcome |-> Raise("JSONDecodeError"),
                   read |-> Append(read, c), removed |-> {}]
             ELSE IF body.kind = "events"
             THEN [outcome |-> Return([success |-> TRUE, text |-> EventTexts(body.events),
                                       language |-> "en", method |-> "yt-dlp"]),
                   read |-> Append(read, c), removed |-> {c}]
             ELSE Probe(k + 1, files, Append(read, c))

\* The body of the try block: subprocess.run, then the probe.
FetchBody(env) ==
    IF env.invocation = "timeout"
    THEN [outcome |-> Raise("TimeoutExpired"), read |-> <<>>, removed |-> {}]
    ELSE IF env.invocation = "oserror"
    THEN [outcome |-> Raise("OSError"), read |-> <<>>, removed |-> {}]
    ELSE Probe(1, env.files, <<>>)

\* Mutant of FetchExcept: only the TimeoutExpired clause.
FetchExceptTimeoutOnly(outcome) ==
    IF outcome.kind = "return" THEN outcome
    ELSE IF outcome.exc = "TimeoutExpired" THEN Return(Failure("Timeout"))
    ELSE outcome

\* The two except clauses: TimeoutExpired, then Exception (str(e)).
FetchExcept(outcome) ==
    IF outcome.kind = "return" THEN outcome
    ELSE IF outcome.exc = "TimeoutExpired" THEN Return(Failure("Timeout"))
    ELSE Return(Failure(outcome.exc))

fetch_transcript_ytdlp(env) ==
    LET b == FetchBody(env)
    IN  [outcome |-> FetchExcept(b.outcome), read |-> b.read, removed |-> b.removed]

(***************************************************************************)
(* process_videos.                                                         *)
(***************************************************************************)
\* The input lines the model draws from: a watch URL with a trailing
\* parameter, a shorts URL with a query, and a line extract_video_id cannot
\* resolve (watch?v= directly followed by &).
UrlPool == { <<"W", "a", "&", "b">>, <<"S", "b", "?", "a">>, <<"W", "&", "a">> }

RECURSIVE SeqsUpTo(_, _)
SeqsUpTo(S, n) ==
    IF n = 0 THEN {<<>>}
    ELSE LET shorter == SeqsUpTo(S, n - 1)
         IN  shorter \cup {Append(s, x) : s \in {t \in shorter : Len(t) = n - 1}, x \in S}

NoEnv == [invocation |-> "none", returncode |-> 0,
          files |-> [c \in {"en", "en-US", "en-GB"} |-> Absent]]

InitBatch ==
    /\ urls \in SeqsUpTo(UrlPool, MaxItems)
    /\ i = 1
    /\ pc = "loop"
    /\ success_count = 0
    /\ failed = <<>>
    /\ sleeps = <<>>
    /\ toolCalls = <<>>
    /\ artifacts = {}
    /\ failedFile = [present |-> FALSE]
    /\ summary = <<>>
    /\ progress = <<>>
    /\ runs = 1

\* failed.append({'url': url, 'error': 'Invalid URL'})
InvalidRecord(url) == [url |-> url, error |-> "Invalid URL"]

\* failed.append({'url': url, 'video_id': video_id, 'error': result['error']})
FetchFailureRecord(url, video_id, result) ==
    [url |-> url, video_id |-> video_id, error |-> result.error]

\* Mutant of SleepDue: the delay after every item, the last one included.
SleepDueAfterLast(k, total) == k <= total

\* if i < total: time.sleep(delay)
SleepDue(k, total) == k < total

\* The file output_dir/<video_id>.txt; opening it with 'w' replaces an older one.
WriteTranscript(files, video_id, url, result) ==
    {a \in files : a.video_id # video_id}
        \cup {[video_id |-> video_id, url |-> url, language |-> result.language,
               method |-> result.method, text |-> result.text]}

\* Mutant of ItemInvalid: `break` in place of `continue`.
ItemInvalidBreaks ==
    /\ pc = "loop"
    /\ i <= Len(urls)
    /\ extract_video_id(urls[i]) = None
    /\ progress' = Append(progress, [i |-> i, mark |-> "invalid"])
    /\ failed' = Append(failed, InvalidRecord(urls[i]))
    /\ i' = Len(urls) + 1
    /\ UNCHANGED <<urls, pc, success_count, sleeps, toolCalls, artifacts, failedFile,
                   summary, runs>>

\* Mutant of ItemInvalid: no `continue`, so the item goes on to the subtitle
\* tool, which finds nothing, and to the delay.
ItemInvalidFallsThrough ==
    /\ pc = "loop"
    /\ i <= Len(urls)
    /\ extract_video_id(urls[i]) = None
    /\ progress' = Append(progress, [i |-> i, mark |-> "invalid"])
    /\ failed' = Append(Append(failed, InvalidRecord(urls[i])),
                        [url |-> urls[i], video_id |-> None, error |-> "No subtitles found"])
    /\ toolCalls' = Append(toolCalls, i)
    /\ sleeps' = IF i < Len(urls) THEN Append(sleeps, i) ELSE sleeps
    /\ i' = i + 1
    /\ UNCHANGED <<urls, pc, success_count, artifacts, failedFile, summary, runs>>

\* One iteration of the for loop whose URL has no video id: record, continue.
ItemInvalid ==
    /\ pc = "loop"
    /\ i <= Len(urls)
    /\ extract_video_id(urls[i]) = None
    /\ progress' = Append(progress, [i |-> i, mark |-> "invalid"])
    /\ failed' = Append(failed, InvalidRecord(urls[i]))
    /\ i' = i + 1
    /\ UNCHANGED <<urls, pc, success_count, sleeps, toolCalls, artifacts, failedFile,
                   summary, runs>>

\* One iteration of the for loop whose URL has a video id: fetch, save or
\* record, sleep unless it is the last item.
ItemFetch ==
    /\ pc = "loop"
    /\ i <= Len(urls)
    /\ extract_video_id(urls[i]) # None
    /\ \E env \in Environments :
        LET video_id == extract_video_id(urls[i]).id
            r == fetch_transcript_ytdlp(env)
        IN  /\ toolCalls' = Append(toolCalls, i)
            /\ IF r.outcome.kind = "raise"
               THEN \* an exception leaving the fetcher ends process_videos
                    /\ pc' = "crashed"
                    /\ UNCHANGED <<i, success_count, failed, sleeps, artifacts, progress>>
               ELSE LET result == r.outcome.value
                    IN  /\ pc' = pc
                        /\ IF result.success
                           THEN /\ artifacts' = WriteTranscript(artifacts, video_id, urls[i], result)
                                /\ success_count' = success_count + 1
                                /\ progress' = Append(progress, [i |-> i, mark |-> "saved"])
                                /\ failed' = failed
                           ELSE /\ failed' = Append(failed,
                                                    FetchFailureRecord(urls[i], video_id, result))
                                /\ progress' = Append(progress, [i |-> i, mark |-> "error"])
                                /\ UNCHANGED <<artifacts, success_count>>
                        /\ sleeps' = IF SleepDue(i, Len(urls)) THEN Append(sleeps, i) ELSE sleeps
                        /\ i' = i + 1
    /\ UNCHANGED <<urls, failedFile, summary, runs>>

\* f"{success_count/total*100:.1f}" in tenths of a percent, rounded to nearest.
SuccessRate(count, total) == (count * 2000 + total) \div (2 * total)

\* After the loop: failed.json when there are failures, then the summary.
\* The success-rate line divides by total and raises ZeroDivisionError for an
\* empty list, after the three lines before it were printed.
Finish ==
    /\ pc = "loop"
    /\ i > Len(urls)
    /\ failedFile' = IF failed # <<>> THEN [present |-> TRUE, records |-> failed]
                     ELSE failedFile
    /\ LET total == Len(urls)
           head == << [line |-> "Total videos", value |-> total],
                      [line |-> "Success", value |-> success_count],
                      [line |-> "Failed", value |-> Len(failed)] >>
       IN  IF total = 0
           THEN /\ summary' = head
                /\ pc' = "crashed"
           ELSE /\ summary' = Append(head, [line |-> "Success rate",
                                            value |-> SuccessRate(success_count, total)])
                /\ pc' = "done"
    /\ UNCHANGED <<urls, i, success_count, failed, sleeps, toolCalls, artifacts,
                   progress, runs>>

\* A further invocation of process_videos on the same output_dir, once the
\* invocation before it has ended: os.makedirs(output_dir, exist_ok=True) keeps
\* what the directory holds, the input file is read anew, and the locals and
\* the console start afresh.
StartRun ==
    /\ pc \in {"done", "crashed"}
    /\ runs < MaxRuns
    /\ urls' \in SeqsUpTo(UrlPool, MaxRunItems)
    /\ i' = 1
    /\ pc' = "loop"
    /\ success_count' = 0
    /\ failed' = <<>>
    /\ sleeps' = <<>>
    /\ toolCalls' = <<>>
    /\ summary' = <<>>
    /\ progress' = <<>>
    /\ runs' = runs + 1
    /\ UNCHANGED <<artifacts, failedFile>>

(***************************************************************************)
(* extract_youtube_videos and extract_channel_urls.  The input text is a   *)
(* sequence of tokens:                                                     *)
(*   "W"  a line break and the literal  https://www.youtube.com/watch?v=   *)
(*   "S"  a line break and the literal  https://www.youtube.com/shorts/    *)
(*   "C"  a line break and the literal  https://www.youtube.com/@          *)
(*   "a"  a word character;  "."  a dot;  "/", "&"  themselves.            *)
(***************************************************************************)
Alphabet == {"W", "S", "C", "a", ".", "/", "&"}

WordChars == {"a"}              \* [\w-]
HandleChars == {"a", "."}       \* [\w\-\.]

\* The longest run of tokens of `class` starting at position p.
RECURSIVE ClassRun(_, _, _)
ClassRun(text, p, class) ==
    IF p > Len(text) \/ text[p] \notin class THEN <<>>
    ELSE <<text[p]>> \o ClassRun(text, p + 1, class)

\* re.findall(prefix + class+, text) from position p on: the matches, left to
\* right, each the prefix with the longest run of class characters after it.
RECURSIVE FindAll(_, _, _, _)
FindAll(text, p, prefix, class) ==
    IF p > Len(text) THEN <<>>
    ELSE LET run == ClassRun(text, p + 1, class)
         IN  IF text[p] = prefix /\ run # <<>>
             THEN <<(<<prefix>> \o run)>> \o FindAll(text, p + 1 + Len(run), prefix, class)
             ELSE FindAll(text, p + 1, prefix, class)

\* url.split('&')[0] if '&' in url else url
CleanUrl(url) == RunFrom(url, 1, {"&"})

\* channel.rstrip('/')
RECURSIVE RStripSlash(_)
RStripSlash(url) ==
    IF url # <<>> /\ url[Len(url)] = "/" THEN RStripSlash(SubSeq(url, 1, Len(url) - 1))
    ELSE url

InSeq(x, seq) == \E k \in 1..Len(seq) : seq[k] = x

\* The seen/unique loop over the cleaned URLs: each is kept the first time it
\* is met.
RECURSIVE Unique(_, _)
Unique(cleaned, kept) ==
    IF cleaned = <<>> THEN kept
    ELSE Unique(Tail(cleaned),
                IF InSeq(Head(cleaned), kept) THEN kept ELSE Append(kept, Head(cleaned)))

\* youtube_patterns: every match of the watch pattern, then every match of the
\* shorts pattern (video_urls.extend per pattern), then the unique loop.
extract_youtube_videos(text) ==
    LET video_urls == FindAll(text, 1, "W", WordChars) \o FindAll(text, 1, "S", WordChars)
    IN  Unique([k \in 1..Len(video_urls) |-> CleanUrl(video_urls[k])], <<>>)

extract_channel_urls(text) ==
    LET found == FindAll(text, 1, "C", HandleChars)
    IN  Unique([k \in 1..Len(found) |-> RStripSlash(found[k])], <<>>)

InitExtract ==
    /\ content \in SeqsUpTo(Alphabet, MaxTextLen)
    /\ video_out = None
    /\ channel_out = None

ExtractVideos ==
    /\ video_out = None
    /\ video_out' = [kind |-> "urls", urls |-> extract_youtube_videos(content)]
    /\ UNCHANGED <<content, channel_out>>

ExtractChannels ==
    /\ channel_out = None
    /\ channel_out' = [kind |-> "urls", urls |-> extract_channel_urls(content)]
    /\ UNCHANGED <<content, video_out>>

(***************************************************************************)
(* fetch_channel_videos and process_channels.                              *)
(***************************************************************************)
\* re.search(r'@([\w\-\.]+)', channel_url): the handle after the '@' of "C".
get_channel_name(channel_url) ==
    LET hits == {p \in 1..Len(channel_url) :
                    channel_url[p] = "C" /\ ClassRun(channel_url, p + 1, HandleChars) # <<>>}
    IN  IF hits = {} THEN <<"unknown">>
        ELSE ClassRun(channel_url, (CHOOSE q \in hits : \A r \in hits : q <= r) + 1,
                      HandleChars)

\* str.strip() of a token sequence; " " is the only whitespace token.
RECURSIVE Strip(_)
Strip(t) ==
    IF t # <<>> /\ Head(t) = " " THEN Strip(Tail(t))
    ELSE IF t # <<>> /\ t[Len(t)] = " " THEN Strip(SubSeq(t, 1, Len(t) - 1))
    ELSE t

\* One stdout line: video_id, title = line.split('|', 1), both stripped, and
\* the watch URL made from the id; nothing for a line without '|'.
ParseLine(line) ==
    IF ~InSeq("|", line) THEN <<>>
    ELSE LET video_id == RunFrom(line, 1, {"|"})
             title == SubSeq(line, Len(video_id) + 2, Len(line))
         IN  << [video_id |-> Strip(video_id), title |-> Strip(title),
                 url |-> <<"W">> \o Strip(video_id)] >>

ParseStdout(lines) == Flatten([k \in 1..Len(lines) |-> ParseLine(lines[k])])

\* The stdout texts the listing tool prints in the model, as lists of lines.
StdoutPool ==
    { <<>>,
      << <<"x", "|", "t">> >>,
      << <<" ", "y", " ", "|", "t", "|", "u">>, <<"n", "o">>, <<"x", "|", " ", "t">> >> }

StderrPool == { <<>>, <<"ERROR", "not", "found">> }

Listings ==
    [invocation : {"timeout", "oserror"}, returncode : {0}, stdout : {<<>>}, stderr : {<<>>}]
    \cup [invocation : {"returned"}, returncode : {0, 1, 2}, stdout : StdoutPool,
          stderr : StderrPool]

\* Mutant of NonZeroExit: only exit code 1 is taken as a failure.
ExitCodeOne(returncode) == returncode = 1

\* if result.returncode != 0
NonZeroExit(returncode) == returncode # 0

\* The try block of fetch_channel_videos.  max_videos only adds an argument
\* to the command line; what the tool then prints is the listing's choice.
EnumBody(listing) ==
    IF listing.invocation = "timeout" THEN Raise("TimeoutExpired")
    ELSE IF listing.invocation = "oserror" THEN Raise("OSError")
    ELSE IF NonZeroExit(listing.returncode)
    THEN Return([success |-> FALSE, error |-> listing.stderr])
    ELSE Return([success |-> TRUE, videos |-> ParseStdout(listing.stdout)])

\* The two except clauses: TimeoutExpired, then Exception (str(e)).
EnumExcept(outcome) ==
    IF outcome.kind = "return" THEN outcome
    ELSE IF outcome.exc = "TimeoutExpired" THEN Return(Failure(<<"Timeout">>))
    ELSE Return(Failure(<<outcome.exc>>))

fetch_channel_videos(listing) == EnumExcept(EnumBody(listing))

\* dict[key] = value: a new key goes last, an old key keeps its place.
DictSet(dict, key, value) ==
    IF \E k \in 1..Len(dict) : dict[k].key = key
    THEN [k \in 1..Len(dict) |-> IF dict[k].key = key
                                 THEN [key |-> key, value |-> value] ELSE dict[k]]
    ELSE Append(dict, [key |-> key, value |-> value])

\* sorted(items, key=..., reverse=True), keys[k] being the key of items[k]:
\* the positions of the items in sorted order; stable, larger keys first.
RECURSIVE SortedPositions(_, _)
SortedPositions(keys, n) ==
    IF n = 0 THEN <<>>
    ELSE LET rest == SortedPositions(keys, n - 1)
             ahead == Cardinality({k \in 1..Len(rest) : keys[rest[k]] >= keys[n]})
         IN  SubSeq(rest, 1, ahead) \o <<n>> \o SubSeq(rest, ahead + 1, Len(rest))

SortedDesc(items, keys) ==
    LET at == SortedPositions(keys, Len(items))
    IN  [k \in 1..Len(items) |-> items[at[k]]]

InitChannels ==
    /\ \E text \in SeqsUpTo({"C", "a", "."}, MaxChannelText) :
          channels = extract_channel_urls(text)
    /\ ci = 1
    /\ cpc = "loop"
    /\ all_videos = <<>>
    /\ channel_stats = <<>>
    /\ channel_files = {}
    /\ aggregate = [present |-> FALSE]
    /\ lastListing = None
    /\ lastEnumResult = None

\* One iteration of the for loop of process_channels.
ChannelStep ==
    /\ cpc = "loop"
    /\ ci <= Len(channels)
    /\ \E listing \in Listings :
        LET channel_url == channels[ci]
            channel_name == get_channel_name(channel_url)
            outcome == fetch_channel_videos(listing)
        IN  /\ lastListing' = listing
            /\ lastEnumResult' = outcome
            /\ IF outcome.kind = "raise"
               THEN \* an exception leaving the enumerator ends process_channels
                    /\ cpc' = "crashed"
                    /\ UNCHANGED <<ci, all_videos, channel_stats, channel_files>>
               ELSE LET result == outcome.value
                    IN  /\ cpc' = cpc
                        /\ ci' = ci + 1
                        /\ IF result.success
                           THEN LET videos == [k \in 1..Len(result.videos) |->
                                                 [video_id |-> result.videos[k].video_id,
                                                  title |-> result.videos[k].title,
                                                  url |-> result.videos[k].url,
                                                  channel_name |-> channel_name,
                                                  channel_url |-> channel_url]]
                                IN  /\ all_videos' = all_videos \o videos
                                    /\ channel_stats' =
                                          DictSet(channel_stats, channel_name,
                                                  [channel_url |-> channel_url,
                                                   video_count |-> Len(videos),
                                                   videos |-> videos])
                                    /\ channel_files' =
                                          {f \in channel_files : f.name # channel_name}
                                             \cup {[name |-> channel_name, videos |-> videos]}
                           ELSE /\ channel_stats' =
                                      DictSet(channel_stats, channel_name,
                                              [channel_url |-> channel_url,
                                               video_count |-> 0,
                                               error |-> result.error])
                                /\ UNCHANGED <<all_videos, channel_files>>
    /\ UNCHANGED <<channels, aggregate>>

\* After the loop: all_videos.json, all_video_urls.txt, channel_stats.json and
\* the report sorted by video count.
ChannelsFinish ==
    /\ cpc = "loop"
    /\ ci > Len(channels)
    /\ aggregate' = [present |-> TRUE,
                     all_videos |-> all_videos,
                     urls |-> [k \in 1..Len(all_videos) |-> all_videos[k].url],
                     stats |-> channel_stats,
                     report |-> SortedDesc(channel_stats,
                                           [k \in 1..Len(channel_stats) |->
                                               channel_stats[k].value.video_count])]
    /\ cpc' = "done"
    /\ UNCHANGED <<channels, ci, all_videos, channel_stats, channel_files,
                   lastListing, lastEnumResult>>

(***************************************************************************)
(* filter_fitness_videos.py.  A transcript file is a sequence of lines, a  *)
(* line a sequence of tokens; a token is one word (word boundaries lie     *)
(* between tokens), a header tag such as "Video ID:", or "====", the line  *)
(* of 80 '=' characters.                                                   *)
(***************************************************************************)
\* The part of FITNESS_KEYWORDS the model scores with, each keyword a
\* sequence of words, in one listing order.
Vocabulary ==
    << <<"squat">>, <<"deadlift">>, <<"bench", "press">>, <<"press">>, <<"gym">>,
       <<"core">>, <<"curl">>, <<"row">>, <<"lunge">>, <<"plank">>, <<"crunch">>,
       <<"burpee">> >>

Reverse(seq) == [k \in 1..Len(seq) |-> seq[Len(seq) + 1 - k]]

\* The iteration orders of the FITNESS_KEYWORDS set the model draws from: the
\* order depends on the string hashes of the process and is fixed by nothing
\* in the code.
KeywordOrders == {Vocabulary, Reverse(Vocabulary)}

\* str.lower() on a token.
Lower(tok) ==
    CASE tok = "Squat" -> "squat"
      [] tok = "GYM" -> "gym"
      [] tok = "Video ID:" -> "video id:"
      [] tok = "URL:" -> "url:"
      [] tok = "Language:" -> "language:"
      [] tok = "Method:" -> "method:"
      [] OTHER -> tok

LowerAll(toks) == [k \in 1..Len(toks) |-> Lower(toks[k])]

\* The lines process_videos writes for a transcript.
TranscriptFile(video_id, url, body) ==
    << <<"Video ID:">> \o video_id, <<"URL:">> \o url, <<"Language:", "en">>,
       <<"Method:", "yt-dlp">>, <<>>, <<"====">>, <<>>, body >>

Unreadable == [kind |-> "unreadable"]
Readable(lines) == [kind |-> "lines", lines |-> lines]

\* The file contents the model draws from.
FilePool ==
    { \* "squat" three times and "deadlift" twice, one of them capitalised
      Readable(TranscriptFile(<<"a">>, <<"W", "a">>,
                              <<"Squat", "the", "squat", "deadlift", "squat", "deadlift">>)),
      \* "squatting" is no match; "bench press" counts for two keywords
      Readable(TranscriptFile(<<"c">>, <<"W", "c">>,
                              <<"squatting", "bench", "press">>)),
      \* eleven keywords once each
      Readable(TranscriptFile(<<"d">>, <<"W", "d">>,
                              <<"squat", "deadlift", "press", "gym", "core", "curl", "row",
                                "lunge", "plank", "crunch", "burpee">>)),
      \* no separator line: the header is scored with the rest
      Readable(<< <<"Video ID:", "GYM">>, <<"squat", "squat", "squat", "squat">> >>),
      Unreadable }

HeaderLines == 10

\* load_transcript: None when the file cannot be read; else the id and URL
\* from the first lines and the lowercased text from the separator line on
\* (the whole content when there is no separator).
load_transcript(file) ==
    IF file.content = Unreadable THEN None
    ELSE LET lines == file.content.lines
             head == SubSeq(lines, 1, Min(HeaderLines, Len(lines)))
             Field(tag) ==
                 LET at == {k \in 1..Len(head) : head[k] # <<>> /\ head[k][1] = tag}
                 IN  IF at = {} THEN <<>>
                     ELSE Tail(head[CHOOSE k \in at : \A j \in at : j <= k])
             seps == {k \in 1..Len(lines) : InSeq("====", lines[k])}
             from == IF seps = {} THEN 1 ELSE CHOOSE k \in seps : \A j \in seps : k <= j
         IN  [kind |-> "transcript",
              video_id |-> Field("Video ID:"),
              url |-> Field("URL:"),
              text |-> LowerAll(Flatten(SubSeq(lines, from, Len(lines)))),
              filename |-> file.filename]

\* len(re.findall(r'\b' + keyword + r'\b', text, re.IGNORECASE)) from position
\* p on: whole-word matches, left to right, not overlapping.
RECURSIVE CountMatches(_, _, _)
CountMatches(text, p, keyword) ==
    IF p + Len(keyword) - 1 > Len(text) THEN 0
    ELSE IF LowerAll(SubSeq(text, p, p + Len(keyword) - 1)) = keyword
    THEN 1 + CountMatches(text, p + Len(keyword), keyword)
    ELSE CountMatches(text, p + 1, keyword)

\* calculate_fitness_score with the keywords iterated in `order`: the matches
\* dict in insertion order and the total.
RECURSIVE calculate_fitness_score(_, _)
calculate_fitness_score(text, order) ==
    IF order = <<>> THEN [total_score |-> 0, matches |-> <<>>]
    ELSE LET before == calculate_fitness_score(text, SubSeq(order, 1, Len(order) - 1))
             keyword == order[Len(order)]
             count == CountMatches(text, 1, keyword)
         IN  IF count > 0
             THEN [total_score |-> before.total_score + count,
                   matches |-> DictSet(before.matches, keyword, count)]
             ELSE before

TopN == 10

\* Mutant of TopKeywords: the matches in dict order, not sorted by count.
TopKeywordsUnsorted(matches) == SubSeq(matches, 1, Min(TopN, Len(matches)))

\* sorted(matches.items(), key=lambda x: x[1], reverse=True)[:10]
TopKeywords(matches) ==
    LET ranked == SortedDesc(matches, [k \in 1..Len(matches) |-> matches[k].value])
    IN  SubSeq(ranked, 1, Min(TopN, Len(ranked)))

\* Mutant of Qualifies: a strict comparison.
QualifiesStrict(score, threshold) == score > threshold

\* if score >= min_score
Qualifies(score, threshold) == score >= threshold

\* The for loop over transcript_files.
RECURSIVE ScoreFiles(_, _, _)
ScoreFiles(transcript_files, threshold, order) ==
    IF transcript_files = <<>> THEN <<>>
    ELSE LET transcript == load_transcript(Head(transcript_files))
             rest == ScoreFiles(Tail(transcript_files), threshold, order)
         IN  IF transcript = None THEN rest
             ELSE LET scored == calculate_fitness_score(transcript.text, order)
                  IN  IF Qualifies(scored.total_score, threshold)
                      THEN << [video_id |-> transcript.video_id,
                               url |-> transcript.url,
                               filename |-> transcript.filename,
                               fitness_score |-> scored.total_score,
                               top_keywords |-> TopKeywords(scored.matches)] >> \o rest
                      ELSE rest

\* find_fitness_videos on the files in listing order, the keywords in `order`.
find_fitness_videos(transcript_files, threshold, order) ==
    IF transcript_files = <<>> THEN <<>>
    ELSE LET fitness_videos == ScoreFiles(transcript_files, threshold, order)
         IN  SortedDesc(fitness_videos,
                        [k \in 1..Len(fitness_videos) |-> fitness_videos[k].fitness_score])

\* The orders in which glob can list the files.
RECURSIVE Listings_of(_)
Listings_of(files) ==
    IF files = {} THEN {<<>>}
    ELSE UNION {{<<f>> \o rest : rest \in Listings_of(files \ {f})} : f \in files}

NoFile == [kind |-> "nofile"]

InitScorer ==
    /\ \E f \in [1..MaxFiles -> FilePool \cup {NoFile}] :
          directory = {[filename |-> k, content |-> f[k]] : k \in {j \in 1..MaxFiles : f[j] # NoFile}}
    /\ min_score \in {0, 5, 6}
    /\ prev = None
    /\ last = None

\* One invocation of find_fitness_videos(transcripts_dir, min_score) on the
\* unchanged directory; the output before it is kept for comparison.
RunScorer ==
    /\ \E listing \in Listings_of(directory), order \in KeywordOrders :
          last' = [kind |-> "output",
                   videos |-> find_fitness_videos(listing, min_score, order)]
    /\ prev' = last
    /\ UNCHANGED <<directory, min_score>>

(***************************************************************************)
(* The components not running in a specification stay in their idle state. *)
(***************************************************************************)
IdleBatch ==
    /\ urls = <<>> /\ i = 1 /\ pc = "idle" /\ success_count = 0 /\ failed = <<>>
    /\ sleeps = <<>> /\ toolCalls = <<>> /\ artifacts = {}
    /\ failedFile = [present |-> FALSE] /\ summary = <<>> /\ progress = <<>>
    /\ runs = 0

IdleFetch == fetchEnv = NoEnv /\ lastRead = <<>> /\ lastResult = None

IdleExtract == content = <<>> /\ video_out = None /\ channel_out = None

IdleChannels ==
    /\ channels = <<>> /\ ci = 1 /\ cpc = "idle" /\ all_videos = <<>>
    /\ channel_stats = <<>> /\ channel_files = {} /\ aggregate = [present |-> FALSE]
    /\ lastListing = None /\ lastEnumResult = None

IdleScorer ==
    directory = {} /\ min_score = 0 /\ prev = None /\ last = None

(***************************************************************************)
(* Spec: one run of process_videos over an input list.                     *)
(***************************************************************************)
Init == InitBatch /\ IdleFetch /\ IdleExtract /\ IdleChannels /\ IdleScorer

Next ==
    \/ ItemInvalid /\ UNCHANGED <<fetchVars, extractVars, channelVars, scorerVars>>
    \/ ItemFetch /\ UNCHANGED <<fetchVars, extractVars, channelVars, scorerVars>>
    \/ Finish /\ UNCHANGED <<fetchVars, extractVars, channelVars, scorerVars>>

Spec == Init /\ [][Next]_vars

(***************************************************************************)
(* SpecRuns: successive runs of process_videos on one output directory.    *)
(***************************************************************************)
InitRuns ==
    /\ InitBatch /\ Len(urls) <= MaxRunItems
    /\ IdleFetch /\ IdleExtract /\ IdleChannels /\ IdleScorer

NextRuns ==
    \/ ItemInvalid /\ UNCHANGED <<fetchVars, extractVars, channelVars, scorerVars>>
    \/ ItemFetch /\ UNCHANGED <<fetchVars, extractVars, channelVars, scorerVars>>
    \/ Finish /\ UNCHANGED <<fetchVars, extractVars, channelVars, scorerVars>>
    \/ StartRun /\ UNCHANGED <<fetchVars, extractVars, channelVars, scorerVars>>

SpecRuns == InitRuns /\ [][NextRuns]_vars

(***************************************************************************)
(* SpecFetch: one call of fetch_transcript_ytdlp in every environment.     *)
(***************************************************************************)
InitFetch ==
    /\ fetchEnv \in Environments
    /\ lastRead = <<>>
    /\ lastResult = None

Fetch ==
    /\ lastResult = None
    /\ LET r == fetch_transcript_ytdlp(fetchEnv)
       IN  /\ lastRead' = r.read
           /\ lastResult' = r.outcome
    /\ UNCHANGED fetchEnv

InitFetchSpec == IdleBatch /\ InitFetch /\ IdleExtract /\ IdleChannels /\ IdleScorer

NextFetch == Fetch /\ UNCHANGED <<batchVars, extractVars, channelVars, scorerVars>>

SpecFetch == InitFetchSpec /\ [][NextFetch]_vars

(***************************************************************************)
(* SpecExtract: the two URL extractors applied to every short text.        *)
(***************************************************************************)
InitExtractSpec == IdleBatch /\ IdleFetch /\ InitExtract /\ IdleChannels /\ IdleScorer

NextExtract ==
    \/ ExtractVideos /\ UNCHANGED <<batchVars, fetchVars, channelVars, scorerVars>>
    \/ ExtractChannels /\ UNCHANGED <<batchVars, fetchVars, channelVars, scorerVars>>

SpecExtract == InitExtractSpec /\ [][NextExtract]_vars

(***************************************************************************)
(* SpecChannels: one run of process_channels over a channels file.         *)
(***************************************************************************)
InitChannelsSpec == IdleBatch /\ IdleFetch /\ IdleExtract /\ InitChannels /\ IdleScorer

NextChannels ==
    \/ ChannelStep /\ UNCHANGED <<batchVars, fetchVars, extractVars, scorerVars>>
    \/ ChannelsFinish /\ UNCHANGED <<batchVars, fetchVars, extractVars, scorerVars>>

SpecChannels == InitChannelsSpec /\ [][NextChannels]_vars

(***************************************************************************)
(* SpecScorer: repeated invocations of find_fitness_videos on a directory. *)
(***************************************************************************)
InitScorerSpec == IdleBatch /\ IdleFetch /\ IdleExtract /\ IdleChannels /\ InitScorer

NextScorer == RunScorer /\ UNCHANGED <<batchVars, fetchVars, extractVars, channelVars>>

SpecScorer == InitScorerSpec /\ [][NextScorer]_vars

(***************************************************************************)
(* Properties of process_videos, checked under Spec.                       *)
(***************************************************************************)
Marks == [k \in 1..Len(progress) |-> progress[k].mark]

\* The numbers of a set in increasing order.
RECURSIVE Ascending(_)
Ascending(S) ==
    IF S = {} THEN <<>>
    ELSE LET m == CHOOSE x \in S : \A y \in S : x <= y
         IN  <<m>> \o Ascending(S \ {m})

FailedItems == Ascending({k \in 1..Len(progress) : progress[k].mark # "saved"})

SavedItems == Ascending({k \in 1..Len(progress) : progress[k].mark = "saved"})

\* C1: every item of the input list is handled exactly once, in input order,
\* and the loop is left only after the last item whatever the items' outcomes;
\* at every point success_count + len(failed) is the number of items handled
\* (n when the loop has ended), success_count counts the saved items, and
\* failed holds exactly one record per failed item, in item order, and none
\* for a saved item.  Three items of which the second fails give 2 successes
\* and 1 FailureRecord.
C1_EveryItemHandledOnce ==
    /\ Len(progress) = i - 1
    /\ \A k \in 1..Len(progress) : progress[k].i = k
    /\ pc # "loop" => i = Len(urls) + 1
    /\ success_count + Len(failed) = i - 1
    /\ success_count = Len(SavedItems)
    /\ Len(failed) = Len(FailedItems)
    /\ \A j \in 1..Len(failed) :
          /\ failed[j].url = urls[FailedItems[j]]
          /\ (failed[j].error = "Invalid URL") = (progress[FailedItems[j]].mark = "invalid")
    /\ (pc # "loop" /\ Marks = <<"saved", "error", "saved">>)
          => success_count = 2 /\ Len(failed) = 1

\* A finished run of three items whose second item timed out.
C1_Witness ==
    /\ pc = "done"
    /\ Marks = <<"saved", "error", "saved">>
    /\ success_count = 2
    /\ Len(failed) = 1
    /\ failed[1].error = "Timeout"

Resolvable(k) == extract_video_id(urls[k]) # None

\* C2 as stated: the delay is invoked after every item but the last, whatever
\* the item's outcome, an unresolvable URL included: after k items of n the
\* delay was invoked after items 1..min(k, n-1), n-1 times by the end.
C2_DelayBetweenAllItems ==
    Len(urls) >= 1 => sleeps = [k \in 1..Min(i - 1, Len(urls) - 1) |-> k]

\* C2 amended: the delay is invoked after an item exactly when the item's
\* video id was resolved and the item is not the last one, whether the fetch
\* succeeded, failed or timed out; an item whose URL is unresolvable is
\* followed by no delay.  A batch of n items invokes the delay once per
\* resolvable item among the first n-1.
C2_DelayAfterResolvedItems ==
    sleeps = Ascending({k \in 1..Min(i - 1, Len(urls) - 1) : Resolvable(k)})

\* A finished run where a failed fetch is followed by the delay and an
\* unresolvable URL is not.
C2_Witness ==
    /\ pc = "done"
    /\ Marks = <<"error", "invalid", "saved">>
    /\ sleeps = <<1>>

\* C3: an item whose video id extract_video_id cannot resolve appends a
\* FailureRecord with error 'Invalid URL' for that item, invokes no subtitle
\* tool, writes no transcript artifact, and the loop goes on to the next item;
\* so the tool is only ever invoked for, and artifacts only ever written from,
\* resolvable URLs.
C3_InvalidUrlRecorded ==
    /\ [](\A k \in 1..Len(toolCalls) : Resolvable(toolCalls[k]))
    /\ [](\A a \in artifacts : extract_video_id(a.url) # None)
    /\ [][(pc = "loop" /\ i <= Len(urls) /\ ~Resolvable(i))
            => /\ Len(failed') = Len(failed) + 1
               /\ SubSeq(failed', 1, Len(failed)) = failed
               /\ failed'[Len(failed')].url = urls[i]
               /\ failed'[Len(failed')].error = "Invalid URL"
               /\ toolCalls' = toolCalls
               /\ artifacts' = artifacts
               /\ pc' = "loop"
               /\ i' = i + 1]_vars

\* An unresolvable first item was recorded without a tool call and the second
\* item was then fetched and saved.
C3_Witness ==
    /\ Len(progress) >= 2
    /\ Marks[1] = "invalid" /\ Marks[2] = "saved"
    /\ failed = << [url |-> <<"W", "&", "a">>, error |-> "Invalid URL"] >>
    /\ toolCalls = <<2>>
    /\ Cardinality(artifacts) = 1

\* C10: whatever the input list, the empty one included, the run ends having
\* printed the four summary lines (total, successes, failures, success rate)
\* and not with an unhandled error.
C10_RunPrintsSummary ==
    pc # "loop" => (pc = "done" /\ Len(summary) = 4)

(***************************************************************************)
(* Properties of successive runs of process_videos, checked under SpecRuns.*)
(***************************************************************************)
\* C11: after every completed run on an output directory, a run that follows
\* earlier runs on the same directory included, failed.json is present only if
\* that run recorded at least one FailureRecord, and when present it holds
\* exactly the FailureRecords of that run in item order, never those of an
\* earlier run.
C11_FailuresFileOfThisRun ==
    pc = "done" =>
        (failedFile.present => (failed # <<>> /\ failedFile.records = failed))

(***************************************************************************)
(* Properties of fetch_transcript_ytdlp, checked under SpecFetch.          *)
(***************************************************************************)
Priority == <<"en", "en-US", "en-GB">>

Exists(c) == fetchEnv.files[c] # Absent

Returned == lastResult # None /\ fetchEnv.invocation = "returned"

InRead(c) == \E k \in 1..Len(lastRead) : lastRead[k] = c

\* C5 as stated: once the tool has returned, no lower-priority candidate is
\* read when a higher-priority candidate exists.
C5_FirstExistingDecides ==
    Returned => \A hi \in 1..3 : \A lo \in (hi + 1)..3 :
                    Exists(Priority[hi]) => ~InRead(Priority[lo])

\* The candidates that exist and are not a JSON object lacking 'events'.
Decisive ==
    Ascending({k \in 1..3 : Exists(Priority[k]) /\ fetchEnv.files[Priority[k]] # NoEvents})

\* C5 amended: the candidates are probed in the order en, en-US, en-GB; a
\* candidate that does not exist, or whose JSON body has no top-level
\* 'events', is passed over, and the result is determined by the first
\* remaining candidate (its text on success, the parse error if it is
\* malformed, 'No subtitles found' if there is none).  A lower-priority
\* candidate is read only when every higher-priority candidate is absent or
\* lacks 'events'.
C5_FirstUsableDecides ==
    Returned =>
        /\ \A a, b \in 1..Len(lastRead) : a < b =>
              \E x, y \in 1..3 : x < y /\ Priority[x] = lastRead[a] /\ Priority[y] = lastRead[b]
        /\ \A k \in 1..3 :
              InRead(Priority[k]) <=>
                  /\ Exists(Priority[k])
                  /\ \A h \in 1..(k - 1) : fetchEnv.files[Priority[h]] \in {Absent, NoEvents}
        /\ IF Decisive = <<>>
           THEN lastResult = Return(Failure("No subtitles found"))
           ELSE LET body == fetchEnv.files[Priority[Decisive[1]]]
                IN  IF body = Malformed
                    THEN lastResult = Return(Failure("JSONDecodeError"))
                    ELSE /\ lastResult.value.success
                         /\ lastResult.value.text = <<Priority[Decisive[1]], "world">>

\* Plain English exists without 'events'; the US file is read and used.
C5_Witness ==
    /\ Returned
    /\ fetchEnv.files["en"] = NoEvents
    /\ Exists("en-US") /\ Exists("en-GB")
    /\ lastRead = <<"en", "en-US">>
    /\ lastResult.value.success
    /\ lastResult.value.text = <<"en-US", "world">>

\* C6: when none of the three candidate files exists after the invocation,
\* whatever the exit code, the fetcher returns the failure 'No subtitles
\* found'; and in every environment (normal exit, non-zero exit, timeout,
\* tool not startable, malformed file) the call returns a success or failure
\* value and raises nothing.
C6_NeverRaises ==
    lastResult # None =>
        /\ lastResult.kind = "return"
        /\ lastResult.value.success \in BOOLEAN
        /\ ~lastResult.value.success => lastResult.value.error # ""
        /\ (Returned /\ \A c \in {"en", "en-US", "en-GB"} : ~Exists(c))
              => lastResult = Return(Failure("No subtitles found"))
        /\ fetchEnv.invocation = "timeout" => lastResult = Return(Failure("Timeout"))

\* The tool exited non-zero, left no file, and the fetcher reported it.
C6_Witness ==
    /\ Returned
    /\ fetchEnv.returncode = 1
    /\ \A c \in {"en", "en-US", "en-GB"} : ~Exists(c)
    /\ lastResult = Return(Failure("No subtitles found"))

(***************************************************************************)
(* Properties of the URL extractors, checked under SpecExtract.            *)
(***************************************************************************)
\* URL u occurs in the text at position p: its tokens stand there and the
\* character after them does not continue it.
OccursAt(u, p, class) ==
    /\ p + Len(u) - 1 <= Len(content)
    /\ SubSeq(content, p, p + Len(u) - 1) = u
    /\ (p + Len(u) <= Len(content) => content[p + Len(u)] \notin class)

FirstOccurrence(u, class) ==
    CHOOSE p \in 1..Len(content) :
        /\ OccursAt(u, p, class)
        /\ \A q \in 1..(p - 1) : ~OccursAt(u, q, class)

\* The output has no duplicate, every URL of it occurs in the text, and the
\* URLs stand in the order of their first occurrence in the text.
InFirstOccurrenceOrder(out, class) ==
    /\ \A a, b \in 1..Len(out) : a # b => out[a] # out[b]
    /\ \A a \in 1..Len(out) : \E p \in 1..Len(content) : OccursAt(out[a], p, class)
    /\ \A a, b \in 1..Len(out) :
          a < b => FirstOccurrence(out[a], class) < FirstOccurrence(out[b], class)

\* C4: for every input text the output of extract_youtube_videos and of
\* extract_channel_urls holds no URL twice and lists the URLs in the order of
\* their first occurrence in the text, also when a /shorts/ URL stands before
\* a watch?v= URL.
C4_FirstOccurrenceOrder ==
    /\ video_out # None => InFirstOccurrenceOrder(video_out.urls, WordChars)
    /\ channel_out # None => InFirstOccurrenceOrder(channel_out.urls, HandleChars)

(***************************************************************************)
(* Properties of fetch_channel_videos and process_channels, checked under  *)
(* SpecChannels.                                                           *)
(***************************************************************************)
\* C7: when the listing process exits with a non-zero code the enumerator
\* returns a failure carrying the process's stderr text unchanged and no
\* parsed videos; on timeout it returns the failure 'Timeout'; it never raises,
\* so process_channels records for that channel an entry with its error and
\* video_count 0, adds none of its stdout to all_videos, and goes on to the
\* next channel until every channel has its entry.
C7_EnumeratorFailureRecorded ==
    /\ cpc # "crashed"
    /\ Len(channel_stats) = ci - 1
    /\ cpc = "done" => ci = Len(channels) + 1
    /\ \A k \in 1..Len(channel_stats) :
          /\ channel_stats[k].key = get_channel_name(channels[k])
          /\ channel_stats[k].value.channel_url = channels[k]
    /\ Len(all_videos) =
          Len(Flatten([k \in 1..Len(channel_stats) |->
                          [j \in 1..channel_stats[k].value.video_count |-> j]]))
    /\ lastEnumResult # None =>
          /\ lastEnumResult.kind = "return"
          /\ (lastListing.invocation = "returned" /\ lastListing.returncode # 0)
                => lastEnumResult.value = [success |-> FALSE, error |-> lastListing.stderr]
          /\ lastListing.invocation = "timeout"
                => lastEnumResult.value = [success |-> FALSE, error |-> <<"Timeout">>]
          /\ ~lastEnumResult.value.success
                => channel_stats[ci - 1].value =
                      [channel_url |-> channels[ci - 1], video_count |-> 0,
                       error |-> lastEnumResult.value.error]

\* The first channel's listing exited with code 2 and a diagnostic, with
\* parseable stdout; its entry carries the diagnostic, and the second channel
\* was then listed.
C7_Witness ==
    /\ cpc = "done"
    /\ Len(channels) >= 2
    /\ channel_stats[1].value = [channel_url |-> channels[1], video_count |-> 0,
                                 error |-> <<"ERROR", "not", "found">>]
    /\ channel_stats[2].value.video_count = 2
    /\ Len(all_videos) = 2
    /\ lastListing.returncode = 0

(***************************************************************************)
(* Properties of find_fitness_videos, checked under SpecScorer.            *)
(***************************************************************************)
RECURSIVE SumCounts(_, _)
SumCounts(text, n) ==
    IF n = 0 THEN 0
    ELSE CountMatches(text, 1, Vocabulary[n]) + SumCounts(text, n - 1)

\* The total score of a readable file: the sum of the per-keyword match counts.
TotalScore(file) == SumCounts(load_transcript(file).text, Len(Vocabulary))

Loads(file) == file.content # Unreadable

SquatDeadliftFile ==
    Readable(TranscriptFile(<<"a">>, <<"W", "a">>,
                            <<"Squat", "the", "squat", "deadlift", "squat", "deadlift">>))

ElevenKeywordsFile ==
    Readable(TranscriptFile(<<"d">>, <<"W", "d">>,
                            <<"squat", "deadlift", "press", "gym", "core", "curl", "row",
                              "lunge", "plank", "crunch", "burpee">>))

\* C8: a transcript artifact appears in the output if and only if its total
\* score is >= min_score, once and with that score as fitness_score, and the
\* output is ordered by fitness_score non-increasing.  The transcript with
\* "squat" three times and "deadlift" twice scores 5: it is included at
\* threshold 5 and excluded at threshold 6.
C8_IncludedIffScoreReachesThreshold ==
    last # None =>
        LET out == last.videos
        IN  /\ \A f \in directory :
                  Loads(f) => ((\E k \in 1..Len(out) : out[k].filename = f.filename)
                                  <=> TotalScore(f) >= min_score)
            /\ \A k \in 1..Len(out) :
                  \E f \in directory : /\ Loads(f)
                                       /\ f.filename = out[k].filename
                                       /\ out[k].fitness_score = TotalScore(f)
            /\ \A a, b \in 1..Len(out) : a # b => out[a].filename # out[b].filename
            /\ \A k \in 1..(Len(out) - 1) : out[k].fitness_score >= out[k + 1].fitness_score
            /\ \A f \in directory :
                  f.content = SquatDeadliftFile =>
                      /\ TotalScore(f) = 5
                      /\ (\E k \in 1..Len(out) : out[k].filename = f.filename)
                            <=> min_score <= 5

\* At threshold 5 the squat/deadlift transcript is listed with score 5, after
\* a transcript scoring 11 that the directory lists behind it.
C8_Witness ==
    /\ last # None
    /\ min_score = 5
    /\ directory = {[filename |-> 1, content |-> SquatDeadliftFile],
                    [filename |-> 2, content |-> ElevenKeywordsFile]}
    /\ Len(last.videos) = 2
    /\ last.videos[1].filename = 2 /\ last.videos[1].fitness_score = 11
    /\ last.videos[2].filename = 1 /\ last.videos[2].fitness_score = 5

\* C9 as stated: two invocations on the unchanged directory with the same
\* threshold give the same output, entry for entry, whatever order the
\* keyword set and the directory listing have on each invocation.
C9_IdenticalOutput ==
    prev # None => prev = last

Counts(top_keywords) == [k \in 1..Len(top_keywords) |-> top_keywords[k].value]

\* C9 amended: two invocations on the unchanged directory with the same
\* threshold give outputs with the same number of entries and the same
\* sequence of fitness scores, and every entry of one has an entry of the
\* other with the same filename, video_id, url and fitness_score whose
\* top_keywords carries the same sequence of counts.  The order among entries
\* of equal fitness_score follows the directory listing, and the order among
\* keywords of equal count (and which of the keywords tied at the cut-off are
\* kept) follows the iteration order of the keyword set, so these may differ
\* between the invocations.
C9_SameEntriesUpToTies ==
    prev # None =>
        LET p == prev.videos
            l == last.videos
        IN  /\ Len(p) = Len(l)
            /\ \A k \in 1..Len(p) : p[k].fitness_score = l[k].fitness_score
            /\ \A k \in 1..Len(p) : \E j \in 1..Len(l) :
                  /\ l[j].filename = p[k].filename
                  /\ l[j].video_id = p[k].video_id
                  /\ l[j].url = p[k].url
                  /\ l[j].fitness_score = p[k].fitness_score
                  /\ Counts(l[j].top_keywords) = Counts(p[k].top_keywords)

KeywordsOf(top_keywords) == {top_keywords[k].key : k \in 1..Len(top_keywords)}

\* Two invocations over two transcripts of equal score: the entries come in
\* the other order and the ten keywords kept for a file are not the same ten.
C9_Witness ==
    /\ prev # None
    /\ Len(prev.videos) = 2
    /\ prev.videos[1].filename = last.videos[2].filename
    /\ prev.videos[2].filename = last.videos[1].filename
    /\ Len(prev.videos[1].top_keywords) = TopN
    /\ KeywordsOf(prev.videos[1].top_keywords) # KeywordsOf(last.videos[2].top_keywords)

====
